---- MODULE Spec2Model ----
(***************************************************************************)
(* AudioNoise: the live control-and-streaming pipeline of the two front    *)
(* ends.                                                                   *)
(*   ui = "tui": tui.py, AudioNoisePlayer driven by AudioNoiseGUI, with    *)
(*               the stream_audio bridge thread;                           *)
(*   ui = "gui": gui.py, AudioNoisePedal (GTK), single threaded.           *)
(* One run of the model is one run of one of the two programs; Init picks  *)
(* which.  Attributes the two classes share by name (playing, proc,        *)
(* control_write, pot_values) are one variable; effect is player.effect in *)
(* the tui and current_effect in the gui.                                  *)
(*                                                                         *)
(* Identities.  The n-th entry into the spawning part of start() /         *)
(* start_playback() creates pipe n; its ends are the parent descriptors    *)
(* <<"cr", n>> and <<"cw", n>>, the input descriptor is <<"in", n>>, the   *)
(* process it spawns is process n, the sink it opens is sink n and the     *)
(* bridge thread it starts is thread n.  0 stands for None.                *)
(***************************************************************************)
EXTENDS Integers, Sequences, FiniteSets, TLC

\* ---------------------------------------------------------------- bounds
\* Number of entries into the spawning part of start() in one run.
MaxStart == 2
\* Number of chunks played in one session (the child then stalls).
MaxChunks == 1
\* Number of parameter updates in one run.
MaxUpdates == 2
\* Largest value a parameter update is tried with.
MaxPot == 101

\* ------------------------------------------------------------- constants
NPots == 4

\* CHUNK_SIZE: the samples of one full read from the child
CHUNK_SIZE == 1024

\* The effects of the run: the first entry of EFFECTS and one more.
EFFECT_NAMES == <<"flanger", "tube">>

EffectSet == {EFFECT_NAMES[i] : i \in 1..Len(EFFECT_NAMES)}

\* EFFECTS[name]['defaults']
EffectDefaults(e) ==
    CASE e = "flanger" -> <<60, 60, 60, 60>>
      [] e = "echo"    -> <<30, 30, 30, 30>>
      [] e = "tube"    -> <<50, 20, 0, 100>>
      [] OTHER         -> <<50, 50, 50, 50>>

Ids == 1..MaxStart

VARIABLES
    ui,             \* which program runs
    playing,        \* self.playing
    paused,         \* AudioNoisePlayer.paused
    proc,           \* self.proc: process id, 0 = None
    control_write,  \* self.control_write: pipe id of the write end, 0 = None
    stream,         \* AudioNoisePlayer.stream: sink id, 0 = None
    stream_thread,  \* AudioNoisePlayer.stream_thread: thread id, 0 = None
    samples_played, \* AudioNoisePlayer.samples_played, in chunks
    effect,         \* player.effect (tui), current_effect (gui)
    effect_var,     \* AudioNoiseGUI.effect_var (the combobox selection)
    pot_values,     \* self.pot_values
    player,         \* AudioNoisePedal.player: sink process id, 0 = None
    stomp_active,   \* AudioNoisePedal.stomp.active
    player_cmd,     \* AudioNoisePedal.player_cmd is not None
    timers,         \* number of pending check_playback timers
    pc,             \* position of the controller thread
    cont,           \* the handler the running stop()/start() was called from
    last,           \* how the last controller call ended: the path start() took,
                    \* or "returned" for a call of another method
    nStart,         \* pipes created so far
    openFds,        \* descriptors open in the parent
    alive,          \* processing-unit processes that are running
    proc_args,      \* self.proc.args: the argv of the process held, <<>> with none
    wire,           \* the messages written to the pipe held in control_write
    bpc,            \* position of each bridge thread
    bproc,          \* the process whose stdout a bridge thread is reading
    sunk,           \* the last frame written to the open sink, <<>> with none
    waveform,       \* AudioNoisePlayer.waveform: the samples of the snapshot
    playback_time,  \* AudioNoisePlayer.playback_time, as the counter it was
                    \* computed from
    lock,           \* AudioNoisePlayer.lock: the thread holding it, 0 = free
    nUpdates,       \* parameter updates made so far
    view            \* the WaveformVisualizer: its files, parameters and axes

vars == <<ui, view, playing, paused, proc, control_write, stream, stream_thread,
          samples_played, effect, effect_var, pot_values,
          player, stomp_active, player_cmd, timers, pc, cont, last,
          nStart, openFds, alive, proc_args, wire, bpc, bproc,
          sunk, waveform, playback_time, lock, nUpdates>>

\* ------------------------------------------------------------ formatting
DigitStr == <<"0", "1", "2", "3", "4", "5", "6", "7", "8", "9">>

Digit(d) == DigitStr[d + 1]

\* str(n) for 0 <= n <= 999
Str(n) ==
    IF n < 10 THEN <<Digit(n)>>
    ELSE IF n < 100 THEN <<Digit(n \div 10), Digit(n % 10)>>
    ELSE <<Digit(n \div 100), Digit((n \div 10) % 10), Digit(n % 10)>>

\* f"{v/100:.2f}" for an integer v >= 0
FmtPot(v) == Str(v \div 100) \o <<".", Digit((v % 100) \div 10), Digit(v % 10)>>

\* f'--control={ctrl_read}'
CtlArg(n) == <<"--control=">> \o Str(n)

PotArgs(e) == [i \in 1..NPots |-> FmtPot(pot_values[e][i])]

\* tui.py: cmd = ['./convert', effect] + pots + ['--control=N']
TuiCmd(n) == <<(<<"./convert">>), <<effect>>>> \o PotArgs(effect) \o <<CtlArg(n)>>

\* gui.py: ['./convert', '--control=N', current_effect] + pots_float
GuiCmd(n, e) == <<(<<"./convert">>), CtlArg(n), <<e>>>> \o PotArgs(e)

\* ------------------------------------------------------------------ init
\* No visualizer runs beside the players: no file is mapped, nothing is shown.
NoView == [rate |-> 0, min_zoom_samples |-> 0, mapped_files |-> <<>>,
           xlim |-> <<0, 0>>, ylim |-> <<0, 0>>, sliced |-> {}, op |-> "none"]

Init ==
    /\ ui \in {"tui", "gui"}
    /\ view = NoView
    /\ playing = FALSE
    /\ paused = FALSE
    /\ proc = 0
    /\ control_write = 0
    /\ stream = 0
    /\ stream_thread = 0
    /\ samples_played = 0
    /\ effect = EFFECT_NAMES[1]
    /\ effect_var = EFFECT_NAMES[1]
    /\ pot_values = [e \in EffectSet |-> EffectDefaults(e)]
    /\ player = 0
    /\ stomp_active = FALSE
    /\ player_cmd \in IF ui = "gui" THEN BOOLEAN ELSE {FALSE}
    /\ timers = 0
    /\ pc = "idle"
    /\ cont = "none"
    /\ last = "none"
    /\ nStart = 0
    /\ openFds = {}
    /\ alive = {}
    /\ proc_args = <<>>
    /\ wire = <<>>
    /\ bpc = [n \in Ids |-> "none"]
    /\ bproc = [n \in Ids |-> 0]
    /\ sunk = <<>>
    /\ waveform = <<"zeros", 4096>>
    /\ playback_time = 0
    /\ lock = 0
    /\ nUpdates = 0

\* -------------------------------------------------------------- helpers
guiVars == <<player, stomp_active, player_cmd, timers>>

bridgeVars == <<bpc, bproc>>

procVars == <<alive, proc_args>>

snapVars == <<sunk, waveform, playback_time, lock>>

\* The holder of self.lock when it is the controller (Tk) thread; a bridge
\* thread holds it under its own number.
CtlThread == MaxStart + 1

Fd(kind, n) == <<kind, n>>

\* f"{value}": the decimal digits with no minimum width.
Pad2_NoWidth(v) ==
    IF v < 0 THEN <<"-">> \o Str(0 - v) ELSE Str(v)

\* f"{value:02d}": at least two characters, the sign included
Pad2(v) ==
    IF v < 0 THEN <<"-">> \o Str(0 - v)
    ELSE IF v < 10 THEN <<"0", Digit(v)>>
    ELSE Str(v)

\* f"p{idx}{value:02d}\n"
PotMsg(idx, v) == <<"p">> \o Str(idx) \o Pad2(v) \o <<"\n">>

\* os.write on the write end of pipe n succeeds while a read end is open:
\* the child's inherited copy, or the parent's own copy if it was not closed.
PipeHasReader(n) == n \in alive \/ Fd("cr", n) \in openFds

\* send_pot whose message overtakes what the pipe still holds.
SendPot_Overtakes(idx, v) ==
    IF control_write # 0 /\ playing /\ PipeHasReader(control_write)
    THEN <<PotMsg(idx, v)>> \o wire
    ELSE wire

\* send_pot: the control pipes after the call
SendPot(idx, v) ==
    IF control_write # 0 /\ playing /\ PipeHasReader(control_write)
    THEN Append(wire, PotMsg(idx, v))
    ELSE wire

\* The controller call returns (or raises) to the event loop.
Return(outcome) ==
    /\ pc' = "idle"
    /\ cont' = "none"
    /\ last' = outcome

\* What the running processes are after terminate() and a bounded wait() on
\* process p: the child exits on the signal, or ignores it and runs on.
TermWait(p) == {alive \ {p}, alive}

\* What the running processes al are after terminate(), a bounded wait()
\* and kill() when the wait timed out.
TermWaitKill(p, al) == al \ {p}


\* ================================================================ tui.py
\* start() without the test of line 115: a start while Playing spawns again.
StartEntry_NoPlayingTest ==
    IF paused
    THEN /\ paused' = FALSE
         /\ pc' = "st_resume"
         /\ UNCHANGED <<playing, samples_played, cont, last>>
    ELSE /\ playing' = TRUE
         /\ samples_played' = 0
         /\ pc' = "st_spawn"
         /\ UNCHANGED <<paused, cont, last>>

\* AudioNoisePlayer.start, lines 108-118: the flag tests and assignments.
StartEntry ==
    IF paused
    THEN /\ paused' = FALSE
         /\ pc' = "st_resume"
         /\ UNCHANGED <<playing, samples_played, cont, last>>
    ELSE IF playing
    THEN /\ Return("start_noop")
         /\ UNCHANGED <<playing, paused, samples_played>>
    ELSE /\ playing' = TRUE
         /\ samples_played' = 0
         /\ pc' = "st_spawn"
         /\ UNCHANGED <<paused, cont, last>>

\* stop() without line 183: the pause flag survives the stop.
StopEntry_KeepsPaused(c) ==
    /\ playing' = FALSE
    /\ pc' = "sp_join"
    /\ cont' = c
    /\ UNCHANGED <<paused, last>>

\* AudioNoisePlayer.stop, lines 182-183.
StopEntry(c) ==
    /\ playing' = FALSE
    /\ paused' = FALSE
    /\ pc' = "sp_join"
    /\ cont' = c
    /\ UNCHANGED last

\* A caller calls player.start().
CallStart ==
    /\ ui = "tui" /\ pc = "idle"
    /\ paused \/ playing \/ nStart < MaxStart
    /\ StartEntry
    /\ UNCHANGED <<snapVars, ui, view, nUpdates, proc, control_write, stream, stream_thread, effect,
                   effect_var, pot_values, guiVars, nStart,
                   openFds, procVars, wire, bridgeVars>>

\* A resume without line 112: the pause flag is cleared, playing is not set.
StartResume_NoPlaying ==
    /\ pc = "st_resume"
    /\ Return("resume")
    /\ UNCHANGED <<snapVars, ui, view, nUpdates, playing, paused, proc, control_write, stream,
                   stream_thread, samples_played, effect, effect_var,
                   pot_values, guiVars, nStart, openFds, procVars, wire,
                   bridgeVars>>

\* start(), line 112: the second assignment of a resume.
StartResume ==
    /\ pc = "st_resume"
    /\ playing' = TRUE
    /\ Return("resume")
    /\ UNCHANGED <<snapVars, ui, view, nUpdates, paused, proc, control_write, stream, stream_thread,
                   samples_played, effect, effect_var, pot_values,
                   guiVars, nStart, openFds, procVars,
                   wire, bridgeVars>>

\* start(), lines 120-143: the control pipe, the input descriptor, Popen and
\* the parent's closes.  os.open and Popen may raise.  Whether a buffer was
\* loaded (self.set by on_load_file) is an input of the call.
StartSpawn ==
    /\ pc = "st_spawn"
    /\ LET n == nStart + 1 IN
       /\ nStart' = n
       /\ control_write' = n
       /\ wire' = <<>>
       /\ \/ /\ openFds' = openFds \cup {Fd("cr", n), Fd("cw", n)}
             /\ Return("start_raised")   \* no buffer, os.open raises
             /\ UNCHANGED <<proc, procVars>>
          \/ \E audio_buffer \in BOOLEAN :
             /\ openFds' = openFds \cup {Fd("cr", n), Fd("cw", n)}
                    \cup (IF audio_buffer THEN {} ELSE {Fd("in", n)})
             /\ Return("start_raised")   \* Popen raises
             /\ UNCHANGED <<proc, procVars>>
          \/ /\ openFds' = openFds \cup {Fd("cw", n)}
             /\ proc' = n
             /\ alive' = alive \cup {n}
             /\ proc_args' = TuiCmd(n)
             /\ pc' = "st_sink"
             /\ UNCHANGED <<cont, last>>
    /\ UNCHANGED <<snapVars, ui, view, nUpdates, playing, paused, stream, stream_thread, samples_played,
                   effect, effect_var, pot_values, guiVars,
                   bridgeVars>>

\* start(), lines 155-172: open and start the output stream, then create and
\* start the bridge thread; on an exception of the stream clear playing,
\* signal the child and re-raise.
StartSink ==
    /\ pc = "st_sink"
    /\ \/ /\ stream' = nStart
          /\ stream_thread' = nStart
          /\ bpc' = [bpc EXCEPT ![nStart] = "cond"]
          /\ Return("start_ok")
          /\ UNCHANGED <<playing, alive>>
       \/ /\ stream' \in {stream, nStart}  \* OutputStream() or .start() raised
          /\ playing' = FALSE
          /\ alive' \in IF proc # 0 THEN TermWait(proc) ELSE {alive}
          /\ Return("sink_raised")
          /\ UNCHANGED <<stream_thread, bpc>>
    /\ sunk' = IF stream' = stream THEN sunk ELSE <<>>
    /\ UNCHANGED <<waveform, playback_time, lock, ui, view, nUpdates, paused, proc,
                   control_write, samples_played, effect,
                   effect_var, pot_values, guiVars, nStart,
                   openFds, proc_args, wire, bproc>>

\* pause() without line 177: playing stays set when paused is set.
CallPause_KeepsPlaying ==
    /\ ui = "tui" /\ pc = "idle"
    /\ IF playing
       THEN /\ pc' = "pa_flag"
            /\ UNCHANGED <<cont, last>>
       ELSE Return("returned")
    /\ UNCHANGED <<snapVars, ui, view, nUpdates, playing, paused, proc, control_write, stream, stream_thread,
                   samples_played, effect, effect_var, pot_values,
                   guiVars, nStart, openFds, procVars,
                   wire, bridgeVars>>

\* AudioNoisePlayer.pause, lines 176-177.
CallPause ==
    /\ ui = "tui" /\ pc = "idle"
    /\ IF playing
       THEN /\ playing' = FALSE
            /\ pc' = "pa_flag"
            /\ UNCHANGED <<cont, last>>
       ELSE /\ Return("returned")
            /\ UNCHANGED playing
    /\ UNCHANGED <<snapVars, ui, view, nUpdates, paused, proc, control_write, stream, stream_thread,
                   samples_played, effect, effect_var, pot_values,
                   guiVars, nStart, openFds, procVars,
                   wire, bridgeVars>>

\* pause(), line 178.
PauseFlag ==
    /\ pc = "pa_flag"
    /\ paused' = TRUE
    /\ Return("returned")
    /\ UNCHANGED <<snapVars, ui, view, nUpdates, playing, proc, control_write, stream, stream_thread,
                   samples_played, effect, effect_var, pot_values,
                   guiVars, nStart, openFds, procVars,
                   wire, bridgeVars>>

\* A caller calls player.stop().
CallStop ==
    /\ ui = "tui" /\ pc = "idle"
    /\ StopEntry("none")
    /\ UNCHANGED <<snapVars, ui, view, nUpdates, proc, control_write, stream, stream_thread,
                   samples_played, effect, effect_var, pot_values,
                   guiVars, nStart, openFds, procVars,
                   wire, bridgeVars>>

\* stop() with join() in place of join(timeout=0.2): the controller waits
\* until the bridge thread has finished.
StopJoin_NoTimeout ==
    /\ pc = "sp_join"
    /\ IF stream_thread = 0
       THEN TRUE
       ELSE bpc[stream_thread] = "done"
    /\ IF control_write # 0
       THEN /\ openFds' = openFds \ {Fd("cw", control_write)}
            /\ control_write' = 0
            /\ wire' = <<>>
       ELSE UNCHANGED <<openFds, control_write, wire>>
    /\ pc' = "sp_term"
    /\ UNCHANGED <<snapVars, ui, view, nUpdates, playing, paused, proc, stream, stream_thread,
                   samples_played, effect, effect_var, pot_values,
                   guiVars, cont, last, nStart, procVars, bridgeVars>>

\* stop() without line 191: the write end is closed and control_write keeps
\* its number.
StopJoin_KeepsHandle ==
    /\ pc = "sp_join"
    /\ IF stream_thread = 0
       THEN TRUE
       ELSE bpc[stream_thread] \in {"done", "reading"}
    /\ IF control_write # 0
       THEN /\ openFds' = openFds \ {Fd("cw", control_write)}
            /\ wire' = <<>>
       ELSE UNCHANGED <<openFds, wire>>
    /\ pc' = "sp_term"
    /\ UNCHANGED <<snapVars, ui, view, nUpdates, playing, paused, proc, stream, stream_thread,
                   samples_played, effect, effect_var, pot_values,
                   guiVars, cont, last, nStart, procVars, bridgeVars,
                   control_write>>

\* stop(), lines 185-191: join(timeout=0.2), then close the control write
\* end.  The join returns when the thread has finished, or on the timeout
\* while the thread is blocked in the read from the child.
StopJoin ==
    /\ pc = "sp_join"
    /\ IF stream_thread = 0
       THEN TRUE
       ELSE bpc[stream_thread] \in {"done", "reading"}
    /\ IF control_write # 0
       THEN /\ openFds' = openFds \ {Fd("cw", control_write)}
            /\ control_write' = 0
            /\ wire' = <<>>
       ELSE UNCHANGED <<openFds, control_write, wire>>
    /\ pc' = "sp_term"
    /\ UNCHANGED <<snapVars, ui, view, nUpdates, playing, paused, proc, stream, stream_thread,
                   samples_played, effect, effect_var, pot_values,
                   guiVars, cont, last, nStart, procVars, bridgeVars>>

\* stop(), lines 193-198: terminate(), wait(timeout=0.5), drop the handle.
StopTerm ==
    /\ pc = "sp_term"
    /\ IF proc # 0
       THEN /\ alive' \in TermWait(proc)
            /\ proc' = 0
            /\ proc_args' = <<>>
       ELSE UNCHANGED <<alive, proc, proc_args>>
    /\ pc' = "sp_stream"
    /\ UNCHANGED <<snapVars, ui, view, nUpdates, playing, paused, control_write, stream, stream_thread,
                   samples_played, effect, effect_var, pot_values,
                   guiVars, cont, last, nStart, openFds, wire, bridgeVars>>

\* stop() that also puts the parameters of the effect back to the defaults
\* of the table.
StopStream_RestoresDefaults ==
    /\ pc = "sp_stream"
    /\ stream' = 0
    /\ sunk' = <<>>
    /\ pot_values' = [pot_values EXCEPT ![effect] = EffectDefaults(effect)]
    /\ IF cont = "send_effect"
       THEN /\ pc' = "se_start"
            /\ UNCHANGED <<cont, last>>
       ELSE IF cont = "restart_play"
       THEN /\ pc' = "rs_start"
            /\ UNCHANGED <<cont, last>>
       ELSE Return("returned")
    /\ UNCHANGED <<waveform, playback_time, lock, ui, view, nUpdates, playing, paused, proc, control_write, stream_thread,
                   samples_played, effect, effect_var,
                   guiVars, nStart, openFds, procVars,
                   wire, bridgeVars>>

\* stop(), lines 200-208: stop and close the sink; stop() returns, to the
\* caller or into send_effect.
StopStream ==
    /\ pc = "sp_stream"
    /\ stream' = 0
    /\ sunk' = <<>>
    /\ IF cont = "send_effect"
       THEN /\ pc' = "se_start"
            /\ UNCHANGED <<cont, last>>
       ELSE IF cont = "restart_play"
       THEN /\ pc' = "rs_start"
            /\ UNCHANGED <<cont, last>>
       ELSE Return("returned")
    /\ UNCHANGED <<waveform, playback_time, lock, ui, view, nUpdates, playing, paused, proc, control_write, stream_thread,
                   samples_played, effect, effect_var, pot_values,
                   guiVars, nStart, openFds, procVars,
                   wire, bridgeVars>>

\* change_effect without the tests of playing, lines 335 and 222: a new
\* effect always restarts the pipeline.
ChangeEffect_NoPlayingTest(e) ==
    /\ ui = "tui" /\ pc = "idle"
    /\ effect_var' = e
    /\ effect' = e
    /\ IF effect # e
       THEN /\ nStart < MaxStart
            /\ StopEntry("send_effect")
       ELSE /\ Return("returned")
            /\ UNCHANGED <<playing, paused>>
    /\ UNCHANGED <<snapVars, ui, view, nUpdates, proc, control_write, stream, stream_thread,
                   samples_played, pot_values, guiVars, nStart,
                   openFds, procVars, wire, bridgeVars>>

\* AudioNoiseGUI.change_effect with the combobox set to e, and the entry of
\* send_effect (lines 222-226) when it is called.
ChangeEffect(e) ==
    /\ ui = "tui" /\ pc = "idle"
    /\ effect_var' = e
    /\ effect' = e
    /\ IF playing /\ effect # e
       THEN /\ nStart < MaxStart
            /\ StopEntry("send_effect")
       ELSE /\ Return("returned")
            /\ UNCHANGED <<playing, paused>>
    /\ UNCHANGED <<snapVars, ui, view, nUpdates, proc, control_write, stream, stream_thread,
                   samples_played, pot_values, guiVars, nStart,
                   openFds, procVars, wire, bridgeVars>>

\* send_effect, lines 227-230, after stop() has returned.
SendEffectStart ==
    /\ pc = "se_start"
    /\ effect' = effect_var
    /\ StartEntry
    /\ UNCHANGED <<snapVars, ui, view, nUpdates, proc, control_write, stream, stream_thread, effect_var,
                   pot_values, guiVars, nStart, openFds, procVars, wire, bridgeVars>>

\* AudioNoiseGUI.restart_play, lines 364-369: the Restart button; stop() is
\* called.
CallRestart ==
    /\ ui = "tui" /\ pc = "idle"
    /\ nStart < MaxStart
    /\ StopEntry("restart_play")
    /\ UNCHANGED <<snapVars, ui, view, nUpdates, proc, control_write, stream, stream_thread,
                   samples_played, effect, effect_var, pot_values, guiVars,
                   nStart, openFds, procVars, wire, bridgeVars>>

\* restart_play, lines 371-374, after stop() has returned: the counter and
\* the time are set to 0 and start() is called.
RestartStart ==
    /\ pc = "rs_start"
    /\ samples_played' = 0
    /\ playback_time' = 0
    /\ StartEntry
    /\ UNCHANGED <<sunk, waveform, lock, ui, view, nUpdates, proc, control_write, stream,
                   stream_thread, effect, effect_var, pot_values, guiVars,
                   nStart, openFds, procVars, wire, bridgeVars>>

\* AudioNoiseGUI.update_waveform, line 391: the timer callback enters the
\* with block.
UwLock ==
    /\ ui = "tui" /\ pc = "idle"
    /\ lock = 0
    /\ lock' = CtlThread
    /\ pc' = "uw_copy"
    /\ UNCHANGED <<sunk, waveform, playback_time, ui, view, nUpdates, playing, paused, proc,
                   control_write, stream, stream_thread, samples_played,
                   effect, effect_var, pot_values, guiVars, cont, last,
                   nStart, openFds, procVars, wire, bridgeVars>>

\* update_waveform, lines 392-412: the snapshot is copied, the with block
\* ends and the copy is drawn.
UwCopy ==
    /\ pc = "uw_copy"
    /\ lock' = 0
    /\ pc' = "idle"
    /\ UNCHANGED <<sunk, waveform, playback_time, ui, view, nUpdates, playing, paused, proc,
                   control_write, stream, stream_thread, samples_played,
                   effect, effect_var, pot_values, guiVars, cont, last,
                   nStart, openFds, procVars, wire, bridgeVars>>

\* ------------------------------------------------- the bridge thread
ctlVars == <<ui, view, nUpdates, proc, control_write, stream, stream_thread, effect,
             effect_var, pot_values, guiVars, pc, cont, last,
             nStart, openFds, procVars, wire>>

\* stream_audio, lines 255-256: what playing is after the loop.
AfterLoop == IF ~paused THEN FALSE ELSE playing

\* stream_audio, line 233: the loop condition.
BridgeCond(t) ==
    /\ bpc[t] = "cond"
    /\ bpc' = [bpc EXCEPT ![t] =
                 IF (playing \/ paused) /\ proc # 0 THEN "read" ELSE "exit"]
    /\ UNCHANGED <<ctlVars, snapVars, playing, paused, samples_played, bproc>>

\* stream_audio, line 235: self.proc.stdout is evaluated and read() called.
\* With self.proc None the attribute error is caught and ends the loop.
BridgeReadCall(t) ==
    /\ bpc[t] = "read"
    /\ IF proc = 0
       THEN /\ bpc' = [bpc EXCEPT ![t] = "exit"]
            /\ UNCHANGED bproc
       ELSE /\ bpc' = [bpc EXCEPT ![t] = "reading"]
            /\ bproc' = [bproc EXCEPT ![t] = proc]
    /\ UNCHANGED <<ctlVars, snapVars, playing, paused, samples_played>>

\* The sizes a chunk read from the child can have: a full read, or less.
ChunkLens == {1, CHUNK_SIZE}

\* The routing without the elif of line 248: no silence while paused.
Routing_NoSilence ==
    IF stream = 0 THEN "none"
    ELSE IF playing /\ ~paused THEN "data"
    ELSE "none"

\* stream_audio, lines 241-250: what the bridge does with a decoded chunk.
Routing ==
    IF stream = 0 THEN "none"
    ELSE IF playing /\ ~paused THEN "data"
    ELSE IF paused THEN "silence"
    ELSE "none"

\* np.zeros(n): a frame of n zero samples.
Zeros(n) == <<"zeros", n>>

\* A decoded chunk of n samples.
Decoded(n) == <<"data", n>>

\* stream_audio, lines 235-250: read() returns a full chunk, which goes to
\* the sink as data (then snapshot, counter and time are set under the
\* lock), as silence, or nowhere.  The block under the lock is one step.
BridgeChunk(t) ==
    /\ bpc[t] = "reading"
    /\ bproc[t] \in alive
    /\ samples_played < MaxChunks
    /\ lock = 0
    /\ \E n \in {CHUNK_SIZE} :
         IF Routing = "data"
         THEN /\ waveform' = Decoded(n)
              /\ samples_played' = samples_played + 1
              /\ playback_time' = samples_played'
         ELSE UNCHANGED <<waveform, samples_played, playback_time>>
    /\ bpc' = [bpc EXCEPT ![t] = "cond"]
    /\ bproc' = [bproc EXCEPT ![t] = 0]
    /\ UNCHANGED <<ctlVars, playing, paused, sunk, lock>>

\* stream_audio, lines 235-245 and 248-250, step by step: read() returns a
\* chunk of n samples.  It is written to the sink as it is, the lock is
\* taken and the snapshot is set; or n zero samples are written; or the
\* chunk goes nowhere.
BridgeRouteN(t, n) ==
    /\ bpc[t] = "reading"
    /\ bproc[t] \in alive
    /\ samples_played < MaxChunks
    /\ CASE Routing = "data" ->
              /\ lock = 0
              /\ sunk' = Decoded(n)
              /\ lock' = t
              /\ waveform' = Decoded(n)
              /\ bpc' = [bpc EXCEPT ![t] = "locked"]
         [] Routing = "silence" ->
              /\ sunk' = Zeros(n)
              /\ bpc' = [bpc EXCEPT ![t] = "cond"]
              /\ UNCHANGED <<lock, waveform>>
         [] OTHER ->
              /\ bpc' = [bpc EXCEPT ![t] = "cond"]
              /\ UNCHANGED <<sunk, lock, waveform>>
    /\ bproc' = [bproc EXCEPT ![t] = 0]
    /\ UNCHANGED <<ctlVars, playing, paused, samples_played, playback_time>>

\* read() returns a chunk of some size.
BridgeRoute(t) == \E n \in ChunkLens : BridgeRouteN(t, n)

\* The with block without line 246: the counter is left as it is.
BridgeLocked_NoCount(t) ==
    /\ bpc[t] = "locked"
    /\ lock = t
    /\ playback_time' = samples_played
    /\ lock' = 0
    /\ bpc' = [bpc EXCEPT ![t] = "cond"]
    /\ UNCHANGED <<ctlVars, playing, paused, bproc, sunk, waveform,
                   samples_played>>

\* stream_audio, lines 246-247: the counter and the time advance, and the
\* with block ends.
BridgeLocked(t) ==
    /\ bpc[t] = "locked"
    /\ lock = t
    /\ samples_played' = samples_played + 1
    /\ playback_time' = samples_played'
    /\ lock' = 0
    /\ bpc' = [bpc EXCEPT ![t] = "cond"]
    /\ UNCHANGED <<ctlVars, playing, paused, bproc, sunk, waveform>>

\* stream_audio, lines 235-237 and 255-256: read() returns nothing at the
\* end of the child's output; the loop ends.
BridgeEof(t) ==
    /\ bpc[t] = "reading"
    /\ bproc[t] \notin alive
    /\ playing' = AfterLoop
    /\ bpc' = [bpc EXCEPT ![t] = "done"]
    /\ bproc' = [bproc EXCEPT ![t] = 0]
    /\ UNCHANGED <<ctlVars, snapVars, paused, samples_played>>

\* stream_audio, lines 239-256: read() returned bytes, and np.frombuffer
\* (a chunk that is not a whole number of samples) or stream.write (a device
\* error, a sink closed by stop()) raises; "except Exception: break" ends the
\* loop and lines 255-256 run.
BridgeRaise(t) ==
    /\ bpc[t] = "reading"
    /\ playing' = AfterLoop
    /\ bpc' = [bpc EXCEPT ![t] = "done"]
    /\ bproc' = [bproc EXCEPT ![t] = 0]
    /\ UNCHANGED <<ctlVars, snapVars, paused, samples_played>>

\* stream_audio, lines 255-256, after the loop condition or an exception
\* ended the loop.
BridgeExit(t) ==
    /\ bpc[t] = "exit"
    /\ playing' = AfterLoop
    /\ bpc' = [bpc EXCEPT ![t] = "done"]
    /\ UNCHANGED <<ctlVars, snapVars, paused, samples_played, bproc>>

\* ------------------------------------------------------- environment
\* The processing unit reaches the end of its input and exits.
ChildExit(p) ==
    /\ p \in alive
    /\ alive' = alive \ {p}
    /\ UNCHANGED <<snapVars, ui, view, nUpdates, playing, paused, proc, control_write, stream,
                   stream_thread, samples_played, effect, effect_var,
                   pot_values, guiVars, pc, cont, last, nStart,
                   openFds, proc_args, wire, bridgeVars>>

\* ================================================================ gui.py
\* The attributes of AudioNoisePedal a handler works on, with the
\* descriptors and processes of the program.
PedalState ==
    [playing |-> playing, proc |-> proc, args |-> proc_args,
     player |-> player, control_write |-> control_write, wire |-> wire,
     stomp |-> stomp_active, timers |-> timers, fds |-> openFds,
     alive |-> alive, nStart |-> nStart, last |-> last]

\* AudioNoisePedal.stop_playback
stop_playback(s) ==
    [s EXCEPT !.fds = IF s.control_write # 0
                      THEN @ \ {Fd("cw", s.control_write)} ELSE @,
              !.control_write = 0,
              !.wire = <<>>,
              !.alive = IF s.proc # 0 THEN TermWaitKill(s.proc, @) ELSE @,
              !.player = 0,
              !.proc = 0,
              !.args = <<>>,
              !.playing = FALSE,
              !.stomp = FALSE,
              !.last = "returned"]

\* start_playback, lines 704-760, with pipe n: the states it can end in.
\* The except clause closes the control write end and nothing else.
SpawnOutcomes(s, n, e) ==
    LET s1 == [s EXCEPT !.nStart = n, !.control_write = 0, !.wire = <<>>] IN
    { \* os.open raises
      [s1 EXCEPT !.fds = @ \cup {Fd("cr", n)}, !.last = "start_raised"],
      \* Popen of ./convert raises
      [s1 EXCEPT !.fds = @ \cup {Fd("cr", n), Fd("in", n)},
                 !.last = "start_raised"],
      \* Popen of the audio player raises
      [s1 EXCEPT !.proc = n, !.args = GuiCmd(n, e),
                 !.alive = @ \cup {n}, !.last = "sink_raised"],
      \* both processes run
      [s1 EXCEPT !.proc = n, !.args = GuiCmd(n, e),
                 !.alive = @ \cup {n}, !.player = n,
                 !.control_write = n, !.fds = @ \cup {Fd("cw", n)},
                 !.playing = TRUE, !.timers = @ + 1, !.last = "start_ok"] }

\* AudioNoisePedal.start_playback with current_effect e: the states it can
\* end in.  input.raw may or may not exist.
start_playback(s, e) ==
    LET s1 == IF s.playing THEN stop_playback(s) ELSE s IN
    {[s1 EXCEPT !.last = "not_started"]}
    \cup (IF player_cmd /\ s1.nStart < MaxStart
          THEN SpawnOutcomes(s1, s1.nStart + 1, e) ELSE {})

\* The handler leaves the program in state r.
PedalBecomes(r) ==
    /\ playing' = r.playing
    /\ proc' = r.proc
    /\ proc_args' = r.args
    /\ player' = r.player
    /\ control_write' = r.control_write
    /\ wire' = r.wire
    /\ stomp_active' = r.stomp
    /\ timers' = r.timers
    /\ openFds' = r.fds
    /\ alive' = r.alive
    /\ nStart' = r.nStart
    /\ last' = r.last
    /\ UNCHANGED <<snapVars, ui, view, nUpdates, paused, stream, stream_thread, samples_played,
                   effect_var, pot_values, player_cmd, pc, cont, bridgeVars>>

\* StompSwitch.on_button_release, or the space key: toggle the switch and
\* call on_stomp.
Stomp ==
    /\ ui = "gui"
    /\ LET s == [PedalState EXCEPT !.stomp = ~stomp_active] IN
       IF s.stomp
       THEN \E r \in start_playback(s, effect) : PedalBecomes(r)
       ELSE PedalBecomes(stop_playback(s))
    /\ UNCHANGED effect

\* AudioNoisePedal.on_effect_change: the combo box changed to e.
OnEffectChange(e) ==
    /\ ui = "gui"
    /\ e # effect
    /\ effect' = e
    /\ IF playing
       THEN \E r \in start_playback(stop_playback(PedalState), e) :
                PedalBecomes(r)
       ELSE PedalBecomes([PedalState EXCEPT !.last = "returned"])

\* AudioNoisePedal.check_playback, run by a pending GLib timer.
CheckPlayback ==
    /\ ui = "gui"
    /\ timers > 0
    /\ IF playing /\ proc # 0 /\ proc \notin alive
       THEN PedalBecomes([stop_playback(PedalState) EXCEPT
                             !.timers = @ - 1, !.last = "finished"])
       ELSE PedalBecomes([PedalState EXCEPT
                             !.timers = IF playing THEN @ ELSE @ - 1])
    /\ UNCHANGED effect

GuiNext ==
    \/ Stomp
    \/ \E e \in EffectSet : OnEffectChange(e)
    \/ CheckPlayback

\* The calls of the controller thread and their steps.
TuiCtl ==
    \/ CallStart \/ StartResume \/ StartSpawn \/ StartSink
    \/ CallPause \/ PauseFlag
    \/ CallStop \/ StopJoin \/ StopTerm \/ StopStream
    \/ \E e \in EffectSet : ChangeEffect(e)
    \/ SendEffectStart

TuiNext ==
    \/ TuiCtl
    \/ \E t \in Ids : BridgeCond(t)
    \/ \E t \in Ids : BridgeReadCall(t)
    \/ \E t \in Ids : BridgeChunk(t)
    \/ \E t \in Ids : BridgeEof(t)
    \/ \E t \in Ids : BridgeRaise(t)
    \/ \E t \in Ids : BridgeExit(t)

Next ==
    \/ TuiNext
    \/ GuiNext
    \/ \E p \in Ids : ChildExit(p)

Spec == Init /\ [][Next]_vars

\* ------------------------------------------- the bridge, step by step
\* Program u after k sessions that were started and stopped with nothing
\* played: the state of Init, with k pipes used and, in the Tk program, k
\* bridge threads finished.
InitAfter(u, k) ==
    /\ ui = u
    /\ playing = FALSE /\ paused = FALSE
    /\ proc = 0 /\ control_write = 0 /\ stream = 0
    /\ stream_thread = IF u = "tui" THEN k ELSE 0
    /\ samples_played = 0
    /\ effect = EFFECT_NAMES[1] /\ effect_var = EFFECT_NAMES[1]
    /\ pot_values = [e \in EffectSet |-> EffectDefaults(e)]
    /\ player = 0 /\ stomp_active = FALSE
    /\ player_cmd \in IF u = "gui" THEN BOOLEAN ELSE {FALSE}
    /\ timers = 0
    /\ pc = "idle" /\ cont = "none"
    /\ last = IF k = 0 THEN "none" ELSE "returned"
    /\ nStart = k
    /\ openFds = {} /\ alive = {} /\ proc_args = <<>> /\ wire = <<>>
    /\ bpc = [n \in Ids |-> IF u = "tui" /\ n <= k THEN "done" ELSE "none"]
    /\ bproc = [n \in Ids |-> 0]
    /\ sunk = <<>>
    /\ waveform = Zeros(4096)
    /\ playback_time = 0
    /\ lock = 0
    /\ nUpdates = 0

\* Two sessions are left to start.
InitBridge == InitAfter("tui", MaxStart - 2) /\ view = NoView

\* The Tk program with the reads of the bridge thread taken step by step,
\* the frames written to the sink recorded, and the Restart button.
NextBridge ==
    \/ TuiCtl
    \/ CallRestart \/ RestartStart
    \/ UwLock \/ UwCopy
    \/ \E t \in Ids : BridgeCond(t)
    \/ \E t \in Ids : BridgeReadCall(t)
    \/ \E t \in Ids : BridgeRoute(t)
    \/ \E t \in Ids : BridgeLocked(t)
    \/ \E t \in Ids : BridgeEof(t)
    \/ \E t \in Ids : BridgeRaise(t)
    \/ \E t \in Ids : BridgeExit(t)
    \/ \E p \in Ids : ChildExit(p)

SpecBridge == InitBridge /\ [][NextBridge]_vars

\* ------------------------------------------------- parameter updates
\* The indices of the four parameters.
PotIdx == 0..(NPots - 1)

\* max(0, min(99, v))
Clamp99(v) == IF v < 0 THEN 0 ELSE IF v > 99 THEN 99 ELSE v

\* update_pot without the tests of playing, lines 340 and 211: the message
\* is written whenever the write end is held.
UpdatePot_AlwaysSends(idx, v) ==
    /\ ui = "tui" /\ pc = "idle"
    /\ nUpdates < MaxUpdates
    /\ nUpdates' = nUpdates + 1
    /\ pot_values' = [pot_values EXCEPT ![effect_var][idx + 1] = v]
    /\ wire' = IF control_write # 0 /\ PipeHasReader(control_write)
               THEN Append(wire, PotMsg(idx, v)) ELSE wire
    /\ Return("returned")
    /\ UNCHANGED <<snapVars, ui, view, playing, paused, proc, control_write, stream,
                   stream_thread, samples_played, effect, effect_var,
                   guiVars, nStart, openFds, procVars, bridgeVars>>

\* update_pot with a send_pot that has no try/except around os.write, lines
\* 213-215: the error of a write to a pipe without a reader reaches the
\* caller.
UpdatePot_WriteRaises(idx, v) ==
    /\ ui = "tui" /\ pc = "idle"
    /\ nUpdates < MaxUpdates
    /\ nUpdates' = nUpdates + 1
    /\ pot_values' = [pot_values EXCEPT ![effect_var][idx + 1] = v]
    /\ wire' = IF playing THEN SendPot(idx, v) ELSE wire
    /\ IF playing /\ control_write # 0 /\ ~PipeHasReader(control_write)
       THEN Return("update_raised")
       ELSE Return("returned")
    /\ UNCHANGED <<snapVars, ui, view, playing, paused, proc, control_write, stream,
                   stream_thread, samples_played, effect, effect_var,
                   guiVars, nStart, openFds, procVars, bridgeVars>>

\* AudioNoiseGUI.update_pot(idx, v), lines 338-341, with send_pot.
UpdatePot(idx, v) ==
    /\ ui = "tui" /\ pc = "idle"
    /\ nUpdates < MaxUpdates
    /\ nUpdates' = nUpdates + 1
    /\ pot_values' = [pot_values EXCEPT ![effect_var][idx + 1] = v]
    /\ wire' = IF playing THEN SendPot(idx, v) ELSE wire
    /\ Return("returned")
    /\ UNCHANGED <<snapVars, ui, view, playing, paused, proc, control_write, stream,
                   stream_thread, samples_played, effect, effect_var,
                   guiVars, nStart, openFds, procVars, bridgeVars>>

\* Knob.value of knob idx: the stored value as set_value left it.
KnobValue(idx) == Clamp99(pot_values[effect][idx + 1])

\* Knob.set_value(v), lines 226-232, of knob idx, with on_knob_change and
\* send_pot (lines 673-690) when the value is new.
KnobSet(idx, v) ==
    /\ ui = "gui" /\ pc = "idle"
    /\ nUpdates < MaxUpdates
    /\ nUpdates' = nUpdates + 1
    /\ LET new_value == Clamp99(v) IN
       IF new_value # KnobValue(idx)
       THEN /\ pot_values' = [pot_values EXCEPT ![effect][idx + 1] = new_value]
            /\ wire' = SendPot(idx, new_value)
       ELSE UNCHANGED <<pot_values, wire>>
    /\ UNCHANGED <<snapVars, ui, view, playing, paused, proc, control_write, stream,
                   stream_thread, samples_played, effect, effect_var,
                   guiVars, pc, cont, last, nStart, openFds, procVars,
                   bridgeVars>>

\* reset_knobs, lines 655-657: the knobs whose set_value(defaults[i]) finds a
\* new value, in the order of the loop, each with the value it notifies.
ResetChanges ==
    LET all == [i \in 1..NPots |->
                   <<i - 1, Clamp99(EffectDefaults(effect)[i])>>]
        IsNew(m) == m[2] # KnobValue(m[1])
    IN  SelectSeq(all, IsNew)

\* AudioNoisePedal.reset_knobs, lines 654-659 (the R key): every knob is set
\* to its default, on_knob_change stores and sends each new value, and the
\* default is stored as it is in the table.
ResetKnobs ==
    /\ ui = "gui" /\ pc = "idle"
    /\ nUpdates < MaxUpdates
    /\ nUpdates' = nUpdates + 1
    /\ pot_values' = [pot_values EXCEPT ![effect] = EffectDefaults(effect)]
    /\ wire' = IF control_write # 0 /\ playing /\ PipeHasReader(control_write)
               THEN wire \o [k \in 1..Len(ResetChanges) |->
                                PotMsg(ResetChanges[k][1], ResetChanges[k][2])]
               ELSE wire
    /\ UNCHANGED <<snapVars, ui, view, playing, paused, proc, control_write, stream,
                   stream_thread, samples_played, effect, effect_var,
                   guiVars, pc, cont, last, nStart, openFds, procVars,
                   bridgeVars>>

\* The value of the lifecycle runs: the example of the protocol.
CtlValues == {80}

\* The two programs with parameter updates between the controller's calls;
\* one update less than a run of updates alone.
InitCtl == \E u \in {"tui", "gui"} : InitAfter(u, MaxStart - 2) /\ view = NoView

NextCtl ==
    \/ Next
    \/ \E v \in CtlValues : nUpdates < MaxUpdates - 1 /\ UpdatePot(1, v)
    \/ \E v \in CtlValues : nUpdates < MaxUpdates - 1 /\ KnobSet(1, v)
    \/ nUpdates < MaxUpdates - 1 /\ ResetKnobs

SpecCtl == InitCtl /\ [][NextCtl]_vars

\* A pipeline that plays, the first of the run: start() or start_playback()
\* has succeeded with effect e, the child stalls, and in the Tk program the
\* bridge thread waits in read().
IsPlaying(u, e) ==
    /\ ui = u
    /\ view = NoView
    /\ playing = TRUE /\ paused = FALSE
    /\ proc = 1 /\ control_write = 1
    /\ stream = (IF u = "tui" THEN 1 ELSE 0)
    /\ stream_thread = (IF u = "tui" THEN 1 ELSE 0)
    /\ samples_played = 0
    /\ effect = e /\ effect_var = IF u = "tui" THEN e ELSE EFFECT_NAMES[1]
    /\ pot_values = [x \in EffectSet |-> EffectDefaults(x)]
    /\ player = (IF u = "gui" THEN 1 ELSE 0)
    /\ stomp_active = (u = "gui") /\ player_cmd = (u = "gui")
    /\ timers = (IF u = "gui" THEN 1 ELSE 0)
    /\ pc = "idle" /\ cont = "none" /\ last = "start_ok"
    /\ nStart = 1
    /\ openFds = {Fd("cw", 1)} /\ alive = {1}
    /\ proc_args = (IF u = "tui" THEN TuiCmd(1) ELSE GuiCmd(1, e))
    /\ wire = <<>>
    /\ bpc = [n \in Ids |-> IF u = "tui" /\ n = 1 THEN "reading" ELSE "none"]
    /\ bproc = [n \in Ids |-> IF u = "tui" /\ n = 1 THEN 1 ELSE 0]
    /\ sunk = <<>>
    /\ waveform = Zeros(4096)
    /\ playback_time = 0
    /\ lock = 0
    /\ nUpdates = 0

\* The values a parameter update is tried with: those of the widgets, and
\* values below and above them.
PotRange == {0 - 10, 0 - 1} \cup 0..MaxPot

InitPot == \E u \in {"tui", "gui"} : \E e \in EffectSet : IsPlaying(u, e)

\* Nothing happens but one parameter update.
NextPot ==
    /\ nUpdates = 0
    /\ \/ \E idx \in PotIdx : \E v \in PotRange : UpdatePot(idx, v)
       \/ \E idx \in PotIdx : \E v \in PotRange : KnobSet(idx, v)

SpecPot == InitPot /\ [][NextPot]_vars

\* ------------------------------------------- a run of parameter updates
\* The knobs and the values of a run of updates.
OrderIdx == {0, 1}

OrderValues == {5, 80}

\* One session of a pipeline that plays: parameter updates, pause and
\* resume in the Tk program, and the child's exit.
NextOrder ==
    \/ \E idx \in OrderIdx : \E v \in OrderValues : UpdatePot(idx, v)
    \/ \E idx \in OrderIdx : \E v \in OrderValues : KnobSet(idx, v)
    \/ ResetKnobs
    \/ CallPause
    \/ PauseFlag
    \/ CallStart
    \/ StartResume
    \/ \E p \in Ids : ChildExit(p)

SpecOrder == InitPot /\ [][NextOrder]_vars

\* ------------------------------------------------ progress of stop()
\* The Tk program under a scheduler that lets the controller thread and the
\* bridge threads run: a thread that can take a step of its own takes it.
\* Nothing is assumed of the child: it may stall, write or exit.
NextStop ==
    \/ TuiNext
    \/ \E p \in Ids : ChildExit(p)

SpecStop ==
    /\ InitBridge
    /\ [][NextStop]_vars
    /\ WF_vars(StopJoin) /\ WF_vars(StopTerm) /\ WF_vars(StopStream)
    /\ \A t \in Ids : /\ WF_vars(BridgeCond(t))
                      /\ WF_vars(BridgeReadCall(t))
                      /\ WF_vars(BridgeExit(t))

\* ================================================================ claims
\* The effect name in the argv of the process held.
ArgvEffect == IF ui = "tui" THEN proc_args[2] ELSE proc_args[3]

\* The four parameter arguments in the argv of the process held.
ArgvPots == IF ui = "tui" THEN SubSeq(proc_args, 3, 6) ELSE SubSeq(proc_args, 4, 7)

\* C1: AudioNoisePlayer.start() called while Playing is a no-op: the call
\* returns at once, nothing is spawned or created, and proc, control_write,
\* stream, stream_thread, samples_played and both flags are as before.
C1_StartWhilePlayingIsNoop ==
    [][(CallStart /\ playing /\ ~paused) =>
          /\ pc' = "idle"
          /\ playing' /\ ~paused'
          /\ UNCHANGED <<proc, control_write, stream, stream_thread,
                         samples_played, nStart, openFds, alive, proc_args,
                         bpc>>]_vars

C1_Witness ==
    /\ ui = "tui" /\ pc = "idle" /\ last = "start_noop"
    /\ playing /\ ~paused
    /\ proc # 0 /\ proc \in alive /\ control_write = proc
    /\ stream_thread # 0 /\ samples_played > 0

\* C2: in the GTK program start_playback() with playing already True keeps
\* the state Playing and keeps the process that was running.
C2_GuiStartWhilePlayingKeepsProcess ==
    [][(Stomp /\ ~stomp_active /\ playing) =>
          (playing' /\ proc' = proc /\ alive' = alive)]_vars

\* C3: when stop() / stop_playback() returns, playing and paused are False,
\* control_write and proc are None, and the control write end that was held
\* has been closed.
C3_StopLeavesIdle ==
    [][/\ (StopStream \/ (Stomp /\ stomp_active)) =>
             (~playing' /\ ~paused' /\ control_write' = 0 /\ proc' = 0)
       /\ ((StopJoin \/ (Stomp /\ stomp_active)) /\ control_write # 0) =>
             (control_write' = 0 /\ Fd("cw", control_write) \notin openFds')
      ]_vars

C3_Witness ==
    /\ pc = "idle" /\ last = "returned"
    /\ ~playing /\ ~paused /\ proc = 0 /\ control_write = 0
    /\ nStart > 0 /\ Fd("cw", nStart) \notin openFds
    /\ \/ ui = "tui" /\ stream_thread = nStart /\ stream = 0
       \/ ui = "gui" /\ timers > 0 /\ player = 0

\* C4: whenever stop() / stop_playback() drops the process handle, the
\* process is no longer running, also when it ignores the termination
\* signal.
C4_StoppedProcessIsGone ==
    [][(proc # 0 /\ proc' = 0) => proc \notin alive']_vars

\* C5: pause() in Playing and the start() that resumes change the two flags
\* and nothing else: Playing, then Paused, then Playing, with proc,
\* control_write, stream, stream_thread and pot_values as before, no process
\* spawned or ended and no descriptor opened or closed.
C5_PauseResumeKeepsPipeline ==
    [][/\ ((CallPause /\ playing) \/ PauseFlag \/ (CallStart /\ paused)
             \/ StartResume) =>
             UNCHANGED <<proc, control_write, stream, stream_thread,
                         pot_values, nStart, openFds, alive, proc_args>>
       /\ PauseFlag => (paused' /\ ~playing')
       /\ (CallStart /\ paused) => pc' = "st_resume"
       /\ StartResume => (playing' /\ ~paused')
      ]_vars

C5_Witness ==
    /\ ui = "tui" /\ pc = "idle" /\ last = "resume"
    /\ playing /\ ~paused
    /\ proc # 0 /\ proc \in alive /\ control_write = proc /\ stream = proc
    /\ stream_thread = proc

\* C6: the end of the processing unit's output, read by the bridge of the
\* process held or seen by check_playback, leaves the pipeline Idle, whether
\* it was Playing or Paused.
C6_EndOfStreamLeavesIdle ==
    [][/\ \A t \in Ids :
             (BridgeEof(t) /\ t = stream_thread /\ bproc[t] = proc
                 /\ pc = "idle") => (~playing' /\ ~paused')
       /\ (CheckPlayback /\ playing /\ proc # 0 /\ proc \notin alive) =>
             ~playing'
      ]_vars

\* C7: when the spawn in start() / start_playback() fails, the pipeline is
\* Idle afterwards, control_write is None, and neither end of the control
\* pipe nor the input descriptor of that start is left open.
C7_FailedSpawnLeavesNothing ==
    [][(nStart' = nStart + 1 /\ last' = "start_raised") =>
          /\ ~playing'
          /\ control_write' = 0
          /\ \A k \in {"cr", "cw", "in"} : Fd(k, nStart') \notin openFds'
      ]_vars

\* C8: when opening the sink fails after the process was spawned, the
\* pipeline is torn down: playing is False, the process is not running and
\* its handle is dropped, and the control write end is closed.
C8_FailedSinkTearsDown ==
    [][((pc = "st_sink" \/ nStart' = nStart + 1) /\ last' = "sink_raised") =>
          /\ ~playing'
          /\ proc' = 0
          /\ nStart' \notin alive'
          /\ control_write' = 0
          /\ Fd("cw", nStart') \notin openFds'
      ]_vars

\* C9: an effect change while Playing whose restart succeeds leaves the
\* pipeline Playing with one new process, whose argv names the new effect
\* and its stored parameters, and with the old process gone; selecting the
\* effect that is active restarts nothing.
C9_EffectChangeRestartsOnce ==
    [][/\ ((StartSink /\ cont = "send_effect" /\ last' = "start_ok")
             \/ (\E e \in EffectSet : OnEffectChange(e) /\ playing
                    /\ last' = "start_ok")) =>
             /\ playing' /\ ~paused'
             /\ proc' = nStart'
             /\ ArgvEffect' = <<effect'>>
             /\ ArgvPots' = [i \in 1..NPots |-> FmtPot(pot_values'[effect'][i])]
             /\ alive' \subseteq {proc'}
       /\ ChangeEffect(effect) => (pc' = "idle" /\ UNCHANGED <<proc, nStart>>)
      ]_vars

\* C10: whenever a process is held by a Playing or Paused pipeline, between
\* two calls of the controller, its argv names the controller's current
\* effect.
C10_HeldProcessRunsCurrentEffect ==
    (pc = "idle" /\ proc # 0 /\ (playing \/ paused)) =>
        ArgvEffect = <<effect>>

LiveBridges == {t \in Ids : bpc[t] \notin {"none", "done"}}

\* C16: there are never two live stream_audio threads, and a bridge thread
\* reads the output of no process but the one it was started for.
C16_OneBridgePerProcess ==
    /\ Cardinality(LiveBridges) <= 1
    /\ \A t \in Ids : bproc[t] \in {0, t}

\* C17: every step that writes or reads the waveform snapshot, samples_played
\* or playback_time is taken by a thread that holds self.lock: the bridge's
\* snapshot and counter updates, the controller's copy of the snapshot, and
\* the controller's resets of the counter in start() and restart_play.
C17_SharedStateUnderLock ==
    [][/\ \A t \in Ids : (BridgeRoute(t) /\ Routing = "data") => lock' = t
       /\ \A t \in Ids : BridgeLocked(t) => lock = t
       /\ UwCopy => lock = CtlThread
       /\ ((CallStart \/ SendEffectStart \/ RestartStart) /\ pc' = "st_spawn")
             => lock = CtlThread
      ]_vars

\* C18: a call of stop(), from any state and whatever the child and the
\* bridge thread do, returns, and when it returns the pipeline is Idle with
\* nothing held.
C18_StopReturns ==
    (pc = "sp_join") ~>
        (/\ pc \in {"idle", "se_start"}
         /\ ~playing /\ ~paused
         /\ proc = 0 /\ control_write = 0 /\ stream = 0)

C18_Witness ==
    /\ pc = "idle" /\ last = "returned"
    /\ ~playing /\ ~paused /\ proc = 0 /\ control_write = 0 /\ stream = 0
    /\ stream_thread # 0 /\ stream_thread = nStart
    /\ bpc[stream_thread] = "reading"
    /\ bproc[stream_thread] \in alive

\* C11: a parameter update stores its value in the slot of the current
\* effect in every state, and writes a control message only when the
\* pipeline is Playing and holds an open control write end; in Idle and in
\* Paused it writes nothing.
C11_UpdateStoresAndSendsWhenPlaying ==
    [][\A v \in CtlValues :
          /\ UpdatePot(1, v) =>
                /\ pot_values'[effect_var][2] = v
                /\ \A e \in EffectSet : \A i \in 1..NPots :
                      (e # effect_var \/ i # 2) =>
                          pot_values'[e][i] = pot_values[e][i]
          /\ (UpdatePot(1, v) \/ KnobSet(1, v)) =>
                /\ wire' # wire =>
                      /\ playing /\ ~paused
                      /\ control_write # 0
                      /\ Fd("cw", control_write) \in openFds
                      /\ wire' = Append(wire, PotMsg(1, v))
                /\ ~playing => wire' = wire
          /\ KnobSet(1, v) => pot_values'[effect][2] = v
      ]_vars

C11_Witness ==
    /\ nUpdates > 0 /\ pc = "idle"
    /\ pot_values[effect][2] = 80
    /\ playing /\ ~paused /\ proc # 0
    /\ wire = <<PotMsg(1, 80)>>

\* The five bytes of the message of knob idx with value v in 0..99.
FiveBytes(idx, v) == <<"p", Digit(idx), Digit(v \div 10), Digit(v % 10), "\n">>

\* C12: for an index in 0..3 and a value in 0..99, a parameter update on a
\* Playing pipeline writes exactly five bytes: 'p', the index digit, the
\* value as two zero-padded digits, and a newline.
C12_FiveByteMessage ==
    [][\A idx \in PotIdx : \A v \in 0..99 :
          /\ UpdatePot(idx, v) => wire' = Append(wire, FiveBytes(idx, v))
          /\ (KnobSet(idx, v) /\ v # KnobValue(idx)) =>
                wire' = Append(wire, FiveBytes(idx, v))
      ]_vars

C12_Witness ==
    /\ playing /\ ~paused /\ nUpdates = 1
    /\ wire = << <<"p", "1", "0", "5", "\n">> >>
    /\ pot_values[effect][2] = 5

\* C13: a value outside [0, 99] given to a parameter update is encoded as
\* its clamp to [0, 99], and every message written has exactly five bytes.
C13_OutOfRangeClamped ==
    [][\A idx \in PotIdx : \A v \in PotRange :
          ((UpdatePot(idx, v) \/ KnobSet(idx, v)) /\ wire' # wire) =>
              /\ wire' = Append(wire, FiveBytes(idx, Clamp99(v)))
              /\ Len(wire'[Len(wire')]) = 5
      ]_vars

\* C14: in every state every effect has four stored values, each an integer
\* of 0..99.
C14_StoredValuesInRange ==
    \A e \in EffectSet :
        /\ Len(pot_values[e]) = NPots
        /\ \A i \in 1..NPots : pot_values[e][i] \in 0..99

\* C19: the argv of every process spawned is the executable, the control
\* option, the effect name and the four parameters, in this order, each
\* parameter written with two fractional digits.
C19_ArgvControlFirst ==
    proc_args # <<>> =>
        /\ Len(proc_args) = NPots + 3
        /\ proc_args[1] = <<"./convert">>
        /\ \E n \in Ids : proc_args[2] = CtlArg(n)
        /\ \E e \in EffectSet : proc_args[3] = <<e>>
        /\ \A i \in 1..NPots :
              \E v \in 0..MaxPot : proc_args[3 + i] = FmtPot(v)

\* C20: between the controller's calls, a pipeline that is not Idle holds
\* one process handle and an open control write end, and at no time are two
\* processing-unit processes alive.
C20_OneLiveProcess ==
    /\ (pc = "idle" /\ (playing \/ paused)) =>
          /\ proc # 0
          /\ control_write # 0
          /\ Fd("cw", control_write) \in openFds
    /\ Cardinality(alive) <= 1

\* C21: once start() or start_playback() has returned or raised, the parent
\* holds neither the read end of a control pipe nor an input descriptor
\* opened for a child's stdin.
C21_ParentHoldsNoChildEnds ==
    pc = "idle" =>
        \A n \in Ids : /\ Fd("cr", n) \notin openFds
                       /\ Fd("in", n) \notin openFds

\* C22: a parameter update whose control write fails, the pipe having no
\* reader left, returns normally: nothing is written, playing, paused, proc
\* and control_write are as before, and the value is stored.
C22_FailedWriteDiscarded ==
    [][\A v \in CtlValues :
          ((UpdatePot(1, v) \/ KnobSet(1, v))
             /\ playing /\ control_write # 0
             /\ control_write \notin alive
             /\ Fd("cr", control_write) \notin openFds) =>
                /\ pc' = "idle"
                /\ ui = "tui" => last' = "returned"
                /\ last' # "update_raised"
                /\ wire' = wire
                /\ UNCHANGED <<playing, paused, proc, control_write>>
                /\ pot_values'[effect][2] = v
      ]_vars

C22_Witness ==
    /\ ui = "tui" /\ pc = "idle" /\ last = "returned"
    /\ nUpdates > 0
    /\ playing /\ ~paused /\ proc # 0 /\ proc \notin alive
    /\ control_write = proc /\ Fd("cw", control_write) \in openFds
    /\ Fd("cr", control_write) \notin openFds
    /\ wire = <<>>
    /\ pot_values[effect][2] = 80

\* C23: while one control pipe is held, its contents change only by a
\* parameter update appending its own message at the end: what was written
\* before stays in place, in order, and nothing is written twice.
C23_MessagesInCallOrder ==
    [][(control_write # 0 /\ control_write' = control_write) =>
          \/ wire' = wire
          \/ \E idx \in OrderIdx : \E v \in OrderValues :
                /\ UpdatePot(idx, v) \/ KnobSet(idx, v)
                /\ wire' = Append(wire, PotMsg(idx, v))
          \/ /\ ResetKnobs
             /\ Len(wire') > Len(wire)
             /\ SubSeq(wire', 1, Len(wire)) = wire
             /\ \A k \in (Len(wire) + 1)..Len(wire') :
                   /\ \E i \in PotIdx :
                         wire'[k] = PotMsg(i, Clamp99(EffectDefaults(effect)[i + 1]))
                   /\ \A j \in (Len(wire) + 1)..(k - 1) :
                         \E i1, i2 \in PotIdx :
                            /\ i1 < i2
                            /\ wire'[j][2] = Digit(i1)
                            /\ wire'[k][2] = Digit(i2)
      ]_vars

C23_Witness ==
    /\ nUpdates = 2 /\ playing /\ control_write # 0
    /\ wire = <<PotMsg(0, 5), PotMsg(1, 80)>>
    /\ pot_values[effect][1] = 5 /\ pot_values[effect][2] = 80

\* C24: an effect change made while the pipeline is Idle sets the stored
\* effect and nothing else: the handler returns, no process is started or
\* stopped, no descriptor is opened or closed, nothing is written to a
\* control pipe, and the pipeline is still Idle.
C24_IdleEffectChangeOnlyStores ==
    [][\A e \in EffectSet :
          ((ChangeEffect(e) \/ OnEffectChange(e)) /\ ~playing /\ ~paused) =>
              /\ effect' = e
              /\ pc' = "idle"
              /\ ~playing' /\ ~paused'
              /\ UNCHANGED <<proc, control_write, stream, stream_thread,
                             player, nStart, openFds, alive, proc_args,
                             wire, pot_values, bpc, bproc>>
      ]_vars

C24_Witness ==
    /\ effect = "tube" /\ nStart = 0 /\ pc = "idle"
    /\ ~playing /\ ~paused
    /\ proc = 0 /\ control_write = 0 /\ openFds = {} /\ alive = {}

\* C25: no step of a bridge thread changes playing or paused.
C25_BridgeLeavesFlags ==
    [][(\E t \in Ids : \/ BridgeCond(t) \/ BridgeReadCall(t)
                       \/ BridgeChunk(t) \/ BridgeEof(t) \/ BridgeExit(t))
          => UNCHANGED <<playing, paused>>]_vars

\* C27: stop() joins the bridge thread last: when the join is made the
\* control write end is closed, the process handle is dropped and the sink
\* is closed.
C27_StopJoinsLast ==
    [][StopJoin => (control_write = 0 /\ proc = 0 /\ stream = 0)]_vars

\* What the controller can read of the way a bridge thread t ended: the two
\* flags, the outcome last reported to it, and whether t is alive.
Observed(t) == <<playing, paused, last, bpc[t] = "done">>

\* C26: a bridge loop ended by an exception leaves the controller with
\* something other than what the end of the stream leaves it with: the
\* flags, the reported outcome or the thread's state differ from those after
\* a clean end of stream.
C26_StreamErrorReported ==
    [][\A t \in Ids :
          BridgeRaise(t) => Observed(t)' # <<AfterLoop, paused, last, TRUE>>
      ]_vars

CurrentEffect == IF ui = "tui" THEN effect_var ELSE effect

\* C29: pot_values changes in a parameter update or in reset_knobs only, and
\* then only in the slots of the current effect: stop(), start(), pause(),
\* an effect change with its restart, the end of the stream and every step
\* of a bridge thread leave it as it is.
C29_ParametersOutliveProcess ==
    [][pot_values' # pot_values =>
          /\ \/ \E v \in CtlValues : UpdatePot(1, v) \/ KnobSet(1, v)
             \/ ResetKnobs
          /\ \A e \in EffectSet \ {CurrentEffect} :
                pot_values'[e] = pot_values[e]
      ]_vars

C29_Witness ==
    /\ pot_values[effect][2] = 80
    /\ nUpdates = 1 /\ nStart = MaxStart /\ pc = "idle"
    /\ ~playing /\ ~paused /\ proc = 0 /\ control_write = 0

C31_PauseResumeAtomic ==
    [][\A t \in Ids :
          (BridgeCond(t) /\ pc \in {"pa_flag", "st_resume"}) =>
              (playing \/ paused)
      ]_vars

\* C32: a bridge thread of an earlier session, once a later process has
\* been spawned, does not change playing and does not read the output of
\* the later process.
C32_StaleBridgeIsHarmless ==
    [][\A t \in Ids :
          (t < nStart /\ proc = nStart) =>
              /\ (BridgeEof(t) \/ BridgeExit(t) \/ BridgeRaise(t)) =>
                    playing' = playing
              /\ BridgeReadCall(t) => bproc'[t] # nStart
      ]_vars

\* C33: whenever the pipeline is Idle between the controller's calls,
\* control_write, proc and stream are all None.
C33_IdleHoldsNothing ==
    (pc = "idle" /\ ~playing /\ ~paused) =>
        (control_write = 0 /\ proc = 0 /\ stream = 0)

\* C34: every chunk that the bridge thread of the running session reads is
\* written to the sink, as the decoded frame or as silence of its length.
C34_NoChunkDropped ==
    [][\A t \in Ids : \A n \in ChunkLens :
          (BridgeRouteN(t, n) /\ t = stream_thread /\ stream = t
              /\ proc = t /\ pc \in {"idle", "pa_flag", "st_resume"}) =>
                /\ Routing \in {"data", "silence"}
                /\ sunk' = IF Routing = "data" THEN Decoded(n) ELSE Zeros(n)
      ]_vars

\* The message of slot i that was written last to the control pipe held, or
\* none.
LastMsgs(i) ==
    {k \in 1..Len(wire) :
        /\ wire[k][2] = Digit(i - 1)
        /\ \A j \in (k + 1)..Len(wire) : wire[j][2] # Digit(i - 1)}

\* C35: in the Tk program, while the pipeline plays the current effect with
\* its child running, what the child was last given for every slot, in its
\* argv or in the last control message of the slot, is the value stored for
\* the current effect.
C35_ProcessHasStoredValues ==
    (ui = "tui" /\ pc = "idle" /\ playing /\ ~paused
        /\ proc # 0 /\ proc \in alive /\ control_write = proc
        /\ ArgvEffect = <<effect_var>>) =>
        \A i \in 1..NPots :
            IF LastMsgs(i) = {}
            THEN proc_args[2 + i] = FmtPot(pot_values[effect_var][i])
            ELSE \A k \in LastMsgs(i) :
                    wire[k] = PotMsg(i - 1, pot_values[effect_var][i])

\* C36: in the GTK program the stomp switch shows what the pipeline does:
\* stomp.active equals playing after every handler.
C36_StompShowsPlaying ==
    ui = "gui" => (stomp_active = playing)

\* C37: playing and paused are never both True.
C37_NeverPlayingAndPaused ==
    ~(playing /\ paused)

C37_Witness ==
    /\ ui = "tui" /\ paused /\ ~playing /\ pc = "idle"
    /\ proc # 0 /\ proc \in alive /\ stream = proc
    /\ bpc[stream_thread] = "read"

\* ------------------------------------------ visualize.py: WaveformVisualizer
\* Times are kept in sample periods: t seconds are t * rate periods, so that
\* int(t * rate) is the value itself, min_width_sec is min_zoom_samples
\* periods and MAX_WIDTH_SEC is MAX_WIDTH_SEC * rate periods.  A product or
\* quotient that is no whole number of periods is truncated.
\* Amplitudes are kept in units of two sample steps, the files holding even
\* samples: the int32 range is -1073741824..1073741823 units, and 1.05 times
\* its largest magnitude is a number the model checker can hold.

\* longest file of the bounded inputs, in samples
MaxSamples == 2

\* most files given on the command line
MaxFiles == 2

\* --rate ranges over 1..MaxRate
MaxRate == 2

\* --min-zoom-samples ranges over 1..MaxZoom
MaxZoom == 3

INITIAL_WINDOW_SEC == 2

MAX_WIDTH_SEC == 2

\* the floor of the y range, 1670000 sample steps
min_val == 835000

\* -2147483648 sample steps
INT32_MIN == -1073741824

\* the largest int32 in whole units
INT32_MAX == 1073741823

\* the samples a file can hold: the extreme value, a quiet one (4 sample
\* steps) and one above the floor (2000000 sample steps)
SampleValues == {INT32_MIN, 2, 1000000}

\* np.memmap refuses an empty file, which __init__ then leaves out
RawFiles == UNION {[1..n -> SampleValues] : n \in 1..MaxSamples}

FileLists == UNION {[1..k -> RawFiles] : k \in 1..MaxFiles}

PyMax(a, b) == IF a >= b THEN a ELSE b

PyMin(a, b) == IF a <= b THEN a ELSE b

\* abs() of a numpy int32: the result is an int32 too, so that the magnitude
\* of the least value wraps to the least value itself
Abs32(x) == IF x = INT32_MIN THEN INT32_MIN ELSE IF x < 0 THEN -x ELSE x

SetMin(S) == CHOOSE m \in S : \A x \in S : m <= x

SetMax(S) == CHOOSE m \in S : \A x \in S : m >= x

\* self.max_samples, which is self.duration_sec in sample periods
duration_sec(v) == SetMax({Len(v.mapped_files[i]) : i \in 1..Len(v.mapped_files)})

\* get_chunk: the slice <<file, start_sample, safe_end>> taken of each file
\* that reaches into the window, and the extremes over the slices
get_chunk(v, start_time, window_duration) ==
    LET start_sample == PyMax(0, start_time)
        end_sample == start_time + window_duration
        size(i) == Len(v.mapped_files[i])
        safe_end(i) == PyMin(end_sample, size(i))
        shown == {i \in 1..Len(v.mapped_files) :
                     ~(start_sample >= size(i)) /\ ~(safe_end(i) <= start_sample)}
        values == UNION {{v.mapped_files[i][k] : k \in (start_sample + 1)..safe_end(i)} :
                          i \in shown}
    IN  [has_data |-> shown # {},
         min_y |-> SetMin(values \cup {INT32_MAX}),
         max_y |-> SetMax(values \cup {INT32_MIN}),
         sliced |-> {<<i, start_sample, safe_end(i)>> : i \in shown}]

\* the y range update_view sets for what get_chunk returned; max_val * 1.05
\* is max_val + max_val / 20
AutoYlim(c) ==
    IF c.has_data /\ c.max_y > c.min_y
    THEN LET max_val == PyMax(Abs32(c.min_y), Abs32(c.max_y))
             m == IF max_val < min_val THEN min_val ELSE max_val + max_val \div 20
         IN  <<-m, m>>
    ELSE <<INT32_MIN, -INT32_MIN>>

\* update_view: the view after the call; navigating is False whenever a
\* handler starts, because every handler runs to its end on the one GUI thread
update_view(v, start_time, width) ==
    LET w == PyMax(v.min_zoom_samples, PyMin(width, MAX_WIDTH_SEC * v.rate))
        st == PyMax(0, PyMin(start_time, duration_sec(v)))
        c == get_chunk(v, st, w)
    IN  [v EXCEPT !.xlim = <<st, st + w>>, !.ylim = AutoYlim(c),
                  !.sliced = c.sliced, !.op = "update_view"]

\* __init__ and setup_ui: the files are mapped and the initial view is shown
NewView(r, z, files) ==
    [update_view([rate |-> r, min_zoom_samples |-> z, mapped_files |-> files,
                  xlim |-> <<0, 1>>, ylim |-> <<0, 1>>, sliced |-> {}, op |-> "none"],
                 0, INITIAL_WINDOW_SEC * r) EXCEPT !.op = "setup_ui"]

\* update_slider: the slider is dragged to val
UpdateSlider(val) ==
    /\ ui = "visualize"
    /\ LET width == view.xlim[2] - view.xlim[1]
       IN  view' = update_view(view, val,
                               IF width <= 0 THEN INITIAL_WINDOW_SEC * view.rate ELSE width)
    /\ UNCHANGED <<ui, playing, paused, proc, control_write, stream, stream_thread,
                   samples_played, effect, effect_var, pot_values,
                   player, stomp_active, player_cmd, timers, pc, cont, last,
                   nStart, openFds, alive, proc_args, wire, bpc, bproc,
                   sunk, waveform, playback_time, lock, nUpdates>>

\* on_scroll: the wheel is turned with the pointer at xdata; set_xlim calls
\* on_xlim_changed, which loads the new window, and slider.set_val calls
\* update_slider, which calls update_view
OnScroll(up, xdata) ==
    /\ ui = "visualize"
    /\ LET cur_width == view.xlim[2] - view.xlim[1]
           scaled == IF up THEN (cur_width * 8) \div 10 ELSE (cur_width * 12) \div 10
           new_width == PyMax(view.min_zoom_samples, PyMin(scaled, MAX_WIDTH_SEC * view.rate))
           centred == xdata - (new_width * (xdata - view.xlim[1])) \div cur_width
           new_start == PyMax(0, PyMin(centred, duration_sec(view) - new_width))
           loaded == get_chunk(view, new_start, new_width)
           shown == update_view([view EXCEPT !.xlim = <<new_start, new_start + new_width>>],
                                new_start, new_width)
       IN  /\ cur_width > 0
           /\ view' = [shown EXCEPT !.sliced = loaded.sliced \cup shown.sliced,
                                    !.op = "on_scroll"]
    /\ UNCHANGED <<ui, playing, paused, proc, control_write, stream, stream_thread,
                   samples_played, effect, effect_var, pot_values,
                   player, stomp_active, player_cmd, timers, pc, cont, last,
                   nStart, openFds, alive, proc_args, wire, bpc, bproc,
                   sunk, waveform, playback_time, lock, nUpdates>>

\* on_select: a rectangle is drawn from (x1, y1) to (x2, y2)
OnSelect(x1, x2, y1, y2) ==
    /\ ui = "visualize"
    /\ LET lo == PyMin(x1, x2)
           end_time == PyMax(x1, x2)
           narrow == end_time - lo < view.min_zoom_samples
           width == IF narrow THEN view.min_zoom_samples ELSE end_time - lo
           start0 == IF narrow THEN (lo + end_time) \div 2 - width \div 2 ELSE lo
           start_time == PyMax(0, PyMin(start0, duration_sec(view) - width))
           new_width == PyMax(view.min_zoom_samples, PyMin(width, MAX_WIDTH_SEC * view.rate))
           c == get_chunk(view, start_time, new_width)
       IN  view' = [view EXCEPT !.xlim = <<start_time, start_time + new_width>>,
                                !.ylim = <<PyMin(y1, y2), PyMax(y1, y2)>>,
                                !.sliced = c.sliced, !.op = "on_select"]
    /\ UNCHANGED <<ui, playing, paused, proc, control_write, stream, stream_thread,
                   samples_played, effect, effect_var, pot_values,
                   player, stomp_active, player_cmd, timers, pc, cont, last,
                   nStart, openFds, alive, proc_args, wire, bpc, bproc,
                   sunk, waveform, playback_time, lock, nUpdates>>

\* the visualizer started on a list of files
InitView ==
    /\ InitAfter("visualize", 0)
    /\ \E r \in 1..MaxRate : \E z \in 1..MaxZoom : \E files \in FileLists :
          view = NewView(r, z, files)

NextView ==
    \/ \E val \in 0..MaxSamples : val <= duration_sec(view) /\ UpdateSlider(val)
    \/ \E up \in BOOLEAN : \E xdata \in view.xlim[1]..view.xlim[2] : OnScroll(up, xdata)
    \/ \E x1, x2 \in view.xlim[1]..view.xlim[2] : \E y1, y2 \in {view.ylim[1], 0, view.ylim[2]} :
          x1 # x2 /\ y1 # y2 /\ OnSelect(x1, x2, y1, y2)

SpecView == InitView /\ [][NextView]_vars

\* the samples of the files that lie in the window the x axis shows
Visible ==
    UNION {{view.mapped_files[i][k] :
               k \in {j \in 1..Len(view.mapped_files[i]) :
                         view.xlim[1] < j /\ j <= view.xlim[2]}} :
            i \in 1..Len(view.mapped_files)}

Magnitude(s) == IF s < 0 THEN -s ELSE s

\* C38: after update_view has shown a window whose data has a maximum above
\* its minimum, the y range is (-m, m) with m at least the magnitude of every
\* visible sample, the least int32 value included, and m is the floor
\* 1670000 or 1.05 times the largest magnitude.
C38_YRangeCoversSamples ==
    (ui = "visualize" /\ view.op \in {"setup_ui", "update_view", "on_scroll"}
       /\ Cardinality(Visible) > 1) =>
        LET largest == SetMax({Magnitude(s) : s \in Visible})
        IN  /\ view.ylim[1] = -view.ylim[2]
            /\ \A s \in Visible : view.ylim[2] >= Magnitude(s)
            /\ view.ylim[2] = IF largest < min_val THEN min_val
                              ELSE largest + largest \div 20

\* C39: after any sequence of slider moves, wheel zooms and rectangle zooms
\* the window starts at or after 0 and is between min_width_sec and
\* MAX_WIDTH_SEC wide, and every slice get_chunk took lies within its file.
C39_WindowWithinLimits ==
    (ui = "visualize" /\ view.op \in {"update_view", "on_scroll", "on_select"}) =>
        /\ view.xlim[1] >= 0
        /\ view.min_zoom_samples <= view.xlim[2] - view.xlim[1]
        /\ view.xlim[2] - view.xlim[1] <= MAX_WIDTH_SEC * view.rate
        /\ \A s \in view.sliced :
              0 <= s[2] /\ s[2] <= s[3] /\ s[3] <= Len(view.mapped_files[s[1]])

====
